---- MODULE Spec2Model ----
(***************************************************************************)
(* A model of the fractional_int crate (src/src/lib.rs): the two types     *)
(* FractionalU8 and FractionalU16 generated by the fractional_int! macro,  *)
(* their saturating arithmetic, inversion, min/max, the width conversions  *)
(* u16()/u8(), the float constructors new_f32/new_f64, the float getters   *)
(* f32()/f64() and the cross-width multiplication.                         *)
(*                                                                         *)
(* Floating point is modelled bit-exactly: a float is a sign, an integer   *)
(* significand and a binary exponent, every operation rounds to nearest,   *)
(* ties to even, as IEEE 754 binary32 / binary64 do.  Significands do not  *)
(* fit TLC's 32-bit integers, so they are kept as little-endian sequences  *)
(* of limbs in base 2^14.                                                  *)
(***************************************************************************)
EXTENDS Integers, Sequences, FiniteSets, TLC

(***************************************************************************)
(* Natural numbers of arbitrary size: <<l1, .., ln>> is the number         *)
(* l1 + l2*Base + .. + ln*Base^(n-1), with ln # 0; zero is << >>.          *)
(***************************************************************************)
Base == 2^14

RECURSIVE BigNorm(_)
BigNorm(a) ==
    IF a = << >> THEN << >>
    ELSE IF a[Len(a)] = 0 THEN BigNorm(SubSeq(a, 1, Len(a) - 1))
    ELSE a

RECURSIVE BigOfInt(_)
BigOfInt(n) ==
    IF n = 0 THEN << >> ELSE <<n % Base>> \o BigOfInt(n \div Base)

RECURSIVE BigToInt(_)
BigToInt(a) ==
    IF a = << >> THEN 0 ELSE a[1] + Base * BigToInt(Tail(a))

\* a * d + c for a small multiplier d and a small carry c (d, c < 2^16).
RECURSIVE BigMulSmall(_, _, _)
BigMulSmall(a, d, c) ==
    IF a = << >> THEN BigOfInt(c)
    ELSE LET t == a[1] * d + c
         IN  <<t % Base>> \o BigMulSmall(Tail(a), d, t \div Base)

RECURSIVE BigAdd(_, _, _)
BigAdd(a, b, c) ==
    IF a = << >> /\ b = << >> THEN BigOfInt(c)
    ELSE LET x == IF a = << >> THEN 0 ELSE a[1]
             y == IF b = << >> THEN 0 ELSE b[1]
             t == x + y + c
         IN  <<t % Base>>
               \o BigAdd(IF a = << >> THEN a ELSE Tail(a),
                         IF b = << >> THEN b ELSE Tail(b), t \div Base)

\* a * Base^k
RECURSIVE BigShiftLimbs(_, _)
BigShiftLimbs(a, k) ==
    IF k = 0 \/ a = << >> THEN a ELSE <<0>> \o BigShiftLimbs(a, k - 1)

RECURSIVE BigMul(_, _)
BigMul(a, b) ==
    IF b = << >> \/ a = << >> THEN << >>
    ELSE IF b[1] = 0 THEN BigShiftLimbs(BigMul(a, Tail(b)), 1)
    ELSE BigAdd(BigMulSmall(a, b[1], 0),
                BigShiftLimbs(BigMul(a, Tail(b)), 1), 0)

\* Quotient and remainder of a by a small divisor d (d <= 2^17), from the
\* top limb down; r is the remainder carried in from above.
RECURSIVE BigDivLimbs(_, _, _)
BigDivLimbs(a, d, r) ==
    IF a = << >> THEN [q |-> << >>, r |-> r]
    ELSE LET t    == r * Base + a[Len(a)]
             rest == BigDivLimbs(SubSeq(a, 1, Len(a) - 1), d, t % d)
         IN  [q |-> rest.q \o <<t \div d>>, r |-> rest.r]

BigDivSmall(a, d, r) ==
    LET res == BigDivLimbs(a, d, r) IN [q |-> BigNorm(res.q), r |-> res.r]

RECURSIVE IntBitLen(_)
IntBitLen(n) == IF n = 0 THEN 0 ELSE 1 + IntBitLen(n \div 2)

BigBitLen(a) ==
    IF a = << >> THEN 0 ELSE 14 * (Len(a) - 1) + IntBitLen(a[Len(a)])

\* a * 2^k
RECURSIVE BigShl(_, _)
BigShl(a, k) ==
    IF k = 0 \/ a = << >> THEN a
    ELSE IF k >= 14 THEN <<0>> \o BigShl(a, k - 14)
    ELSE BigMulSmall(a, 2^k, 0)

\* floor(a / 2^k), and whether a nonzero remainder was dropped.
RECURSIVE BigShr(_, _)
BigShr(a, k) ==
    IF k = 0 \/ a = << >> THEN [q |-> a, sticky |-> FALSE]
    ELSE IF k >= 14
         THEN LET rest == BigShr(Tail(a), k - 14)
              IN  [q |-> rest.q, sticky |-> rest.sticky \/ a[1] # 0]
    ELSE LET d == BigDivSmall(a, 2^k, 0)
         IN  [q |-> d.q, sticky |-> d.r # 0]

BigIsOdd(a) == a # << >> /\ a[1] % 2 = 1

\* -1, 0, 1 as a < b, a = b, a > b.
RECURSIVE BigCmp(_, _)
BigCmp(a, b) ==
    IF Len(a) # Len(b) THEN (IF Len(a) < Len(b) THEN -1 ELSE 1)
    ELSE IF a = << >> THEN 0
    ELSE IF a[Len(a)] # b[Len(b)]
         THEN (IF a[Len(a)] < b[Len(b)] THEN -1 ELSE 1)
    ELSE BigCmp(SubSeq(a, 1, Len(a) - 1), SubSeq(b, 1, Len(b) - 1))

(***************************************************************************)
(* Binary floating point.  A format is its precision p (bits of the        *)
(* significand) and the least and greatest exponent of the significand's   *)
(* last bit.  A float is [k, neg, m, e]: k is "fin", "inf" or "nan"; a     *)
(* finite float is the number (-1)^neg * m * 2^e, where m < 2^p,           *)
(* e >= emin and m * 2^e < 2^(p + emax): exactly the numbers the format    *)
(* holds.  One number may have several such pairs (m, e); no operation     *)
(* below depends on which one it is given.                                 *)
(***************************************************************************)
F32 == [p |-> 24, emin |-> -149, emax |-> 104]
F64 == [p |-> 53, emin |-> -1074, emax |-> 971]

IntMax(a, b) == IF a >= b THEN a ELSE b
IntMin(a, b) == IF a <= b THEN a ELSE b

FZero(neg, fmt) == [k |-> "fin", neg |-> neg, m |-> << >>, e |-> fmt.emin]
FInf(neg)       == [k |-> "inf", neg |-> neg, m |-> << >>, e |-> 0]
FNaN            == [k |-> "nan", neg |-> FALSE, m |-> << >>, e |-> 0]

\* The float of format fmt nearest to (-1)^neg * m * 2^e, ties to even;
\* beyond the greatest finite float it is an infinity.  s is the number of
\* low bits of m the format cannot keep.
FRound(neg, m, e, fmt) ==
    LET n == BigBitLen(m)
        s == IntMax(n - fmt.p, fmt.emin - e)
    IN  IF m = << >> THEN FZero(neg, fmt)
        ELSE IF s <= 0
        THEN (IF n + e > fmt.p + fmt.emax THEN FInf(neg)
              ELSE [k |-> "fin", neg |-> neg, m |-> m, e |-> e])
        ELSE LET t     == BigShr(m, s - 1)
                 guard == BigIsOdd(t.q)
                 q     == BigShr(t.q, 1).q
                 up    == guard /\ (t.sticky \/ BigIsOdd(q))
                 q2    == IF up THEN BigAdd(q, << >>, 1) ELSE q
             IN  IF q2 = << >> THEN FZero(neg, fmt)
                 ELSE IF BigBitLen(q2) + e + s > fmt.p + fmt.emax THEN FInf(neg)
                 ELSE IF BigBitLen(q2) > fmt.p
                 THEN [k |-> "fin", neg |-> neg, m |-> BigShr(q2, 1).q, e |-> e + s + 1]
                 ELSE [k |-> "fin", neg |-> neg, m |-> q2, e |-> e + s]

\* An unsigned integer as a float (`x as f32`, `x as f64`), x < 2^31.
FOfInt(x, fmt) == FRound(FALSE, BigOfInt(x), 0, fmt)

\* The float nearest to the rational (-1)^neg * num / den (num < 2^31,
\* 0 < den <= 2^17): a decimal literal, or the quotient of two integers
\* that are floats themselves.  The quotient is taken to p + 3 bits at
\* least and a nonzero remainder is kept as a last sticky bit.
FOfRatio(neg, num, den, fmt) ==
    LET k == fmt.p + 20
        d == BigDivSmall(BigShl(BigOfInt(num), k), den, 0)
        m == BigMulSmall(d.q, 2, IF d.r # 0 THEN 1 ELSE 0)
    IN  FRound(neg, BigNorm(m), -(k + 1), fmt)

\* x * y, rounded.
FMul(x, y, fmt) ==
    LET neg == x.neg # y.neg
    IN  IF x.k = "nan" \/ y.k = "nan" THEN FNaN
        ELSE IF x.k = "inf" \/ y.k = "inf"
        THEN (IF (x.k = "fin" /\ x.m = << >>) \/ (y.k = "fin" /\ y.m = << >>)
              THEN FNaN ELSE FInf(neg))
        ELSE FRound(neg, BigMul(x.m, y.m), x.e + y.e, fmt)

\* Faulty variants of the cast: one that wraps modulo max + 1 (negative values and
\* NaN included) instead of saturating, one that rounds to the nearest
\* integer instead of truncating.
FToUIntWrapping(x, max) ==
    IF x.k # "fin" THEN 0
    ELSE LET t == IF x.e >= 0 THEN BigShl(x.m, x.e) ELSE BigShr(x.m, -x.e).q
             r == BigDivSmall(t, max + 1, 0).r
         IN  IF x.neg THEN (max + 1 - r) % (max + 1) ELSE r

FToUIntRounding(x, max) ==
    IF x.k = "nan" \/ x.neg THEN 0
    ELSE IF x.k = "inf" THEN max
    ELSE IF x.m = << >> THEN 0
    ELSE IF BigBitLen(x.m) + x.e > IntBitLen(max) THEN max
    ELSE IF x.e >= 0 THEN IntMin(BigToInt(BigShl(x.m, x.e)), max)
    ELSE LET h == BigShr(x.m, -x.e - 1).q
         IN  IntMin(BigToInt(BigShr(BigAdd(h, << >>, 1), 1).q), max)

\* `x as uN` for a float x: the integer part of x (toward zero), saturated
\* to 0..max; NaN gives 0.
FToUInt(x, max) ==
    IF x.k = "nan" THEN 0
    ELSE IF x.neg THEN 0
    ELSE IF x.k = "inf" THEN max
    ELSE IF x.m = << >> THEN 0
    ELSE IF BigBitLen(x.m) + x.e > IntBitLen(max) THEN max
    ELSE IF x.e >= 0 THEN IntMin(BigToInt(BigShl(x.m, x.e)), max)
    ELSE IntMin(BigToInt(BigShr(x.m, -x.e).q), max)

\* a - 1 for a > 0.
RECURSIVE BigPredLimbs(_)
BigPredLimbs(a) ==
    IF a[1] > 0 THEN <<a[1] - 1>> \o Tail(a)
    ELSE <<Base - 1>> \o BigPredLimbs(Tail(a))

BigPred(a) == BigNorm(BigPredLimbs(a))

\* The pair (m, e) of a finite nonzero float with the least exponent the
\* format allows: m >= 2^(p-1), or e = emin for a subnormal.
FCanon(x, fmt) ==
    LET k == IntMin(fmt.p - BigBitLen(x.m), x.e - fmt.emin)
    IN  [x EXCEPT !.m = BigShl(x.m, k), !.e = x.e - k]

\* The neighbours of a finite float x > 0 in the format.
FNextUp(x, fmt) ==
    LET c == FCanon(x, fmt) IN FRound(x.neg, BigAdd(c.m, << >>, 1), c.e, fmt)

FNextDown(x, fmt) ==
    LET c == FCanon(x, fmt)
    IN  IF c.e > fmt.emin /\ BigBitLen(BigPred(c.m)) < fmt.p
        THEN [c EXCEPT !.m = BigPred(BigShl(c.m, 1)), !.e = c.e - 1]
        ELSE [c EXCEPT !.m = BigPred(c.m)]

FNeg(x) == [x EXCEPT !.neg = ~x.neg]

\* x < 0.0, x > 1.0, 0.0 <= x <= 1.0 as the float comparisons decide them
\* (all three are false of NaN; -0.0 is not below 0.0).
FIsPow2(x)   == ~BigShr(x.m, BigBitLen(x.m) - 1).sticky
FLtZero(x)   == x.k # "nan" /\ x.neg /\ (x.k = "inf" \/ x.m # << >>)
FGtOne(x)    == /\ x.k # "nan" /\ ~x.neg
                /\ \/ x.k = "inf"
                   \/ /\ x.m # << >>
                      /\ \/ BigBitLen(x.m) + x.e > 1
                         \/ BigBitLen(x.m) + x.e = 1 /\ ~FIsPow2(x)
FInUnit(x)   == x.k = "fin" /\ ~FLtZero(x) /\ ~FGtOne(x)

(***************************************************************************)
(* The program.  A value of FractionalU8 / FractionalU16 is [w, raw]: the  *)
(* width of its inner integer and the integer.                             *)
(***************************************************************************)
Widths == {8, 16}

\* <$inner>::MAX
MAX(w) == 2^w - 1

\* Self::new(value), From<$inner>
new(w, value) == [w |-> w, raw |-> value]

\* #[derive(Default)]: the inner integer's default, 0.
Default(w) == new(w, 0)

\* Faulty variants: the wrapping and the unchecked forms of the arithmetic.
WrappingAdd(a, b, w)  == (a + b) % 2^w
UncheckedAdd(a, b, w) == a + b
WrappingSub(a, b, w)  == (a - b) % 2^w

\* uN::saturating_add, uN::saturating_sub
SaturatingAdd(a, b, w) == IF a + b > MAX(w) THEN MAX(w) ELSE a + b
SaturatingSub(a, b, w) == IF a - b < 0 THEN 0 ELSE a - b

\* Faulty variant: the two's complement negation -x in place of !x.
WrappingNeg(x, w) == (2^w - x) % 2^w

\* !x on an unsigned integer of w bits: every bit flipped.
RECURSIVE BitNot(_, _)
BitNot(x, w) ==
    IF w = 0 THEN 0 ELSE (1 - (x % 2)) + 2 * BitNot(x \div 2, w - 1)

\* `const MAX: f32 = <$inner>::MAX as f32` and its f64 twin, per width.
MAX_F32 == [w \in Widths |-> FOfInt(MAX(w), F32)]
MAX_F64 == [w \in Widths |-> FOfInt(MAX(w), F64)]

\* Self::new_f32(value), Self::new_f64(value): scale in the float domain,
\* then the saturating float-to-integer cast.
new_f32(w, value) == new(w, FToUInt(FMul(value, MAX_F32[w], F32), MAX(w)))
new_f64(w, value) == new(w, FToUInt(FMul(value, MAX_F64[w], F64), MAX(w)))

\* `const MAX_INV: f32 = 1.0 / <$inner>::MAX as f32` and its f64 twin: the
\* rounded quotient of the floats 1.0 and MAX.
MAX_INV_F32 == [w \in Widths |-> FOfRatio(FALSE, 1, MAX(w), F32)]
MAX_INV_F64 == [w \in Widths |-> FOfRatio(FALSE, 1, MAX(w), F64)]

\* self.f32(), self.f64(): `self.0 as f32 * MAX_INV`
f32(v) == FMul(FOfInt(v.raw, F32), MAX_INV_F32[v.w], F32)
f64(v) == FMul(FOfInt(v.raw, F64), MAX_INV_F64[v.w], F64)

\* self.max(rhs), self.min(rhs)
max(v, r) == new(v.w, IF v.raw >= r.raw THEN v.raw ELSE r.raw)
min(v, r) == new(v.w, IF v.raw <= r.raw THEN v.raw ELSE r.raw)

\* self + rhs, self + scalar, self += rhs, self += scalar
add(v, r)               == new(v.w, SaturatingAdd(v.raw, r.raw, v.w))
add_scalar(v, n)        == new(v.w, SaturatingAdd(v.raw, n, v.w))
add_assign(v, r)        == [v EXCEPT !.raw = SaturatingAdd(v.raw, r.raw, v.w)]
add_assign_scalar(v, n) == [v EXCEPT !.raw = SaturatingAdd(v.raw, n, v.w)]

\* self - rhs, self - scalar, self -= rhs, self -= scalar
sub(v, r)               == new(v.w, SaturatingSub(v.raw, r.raw, v.w))
sub_scalar(v, n)        == new(v.w, SaturatingSub(v.raw, n, v.w))
sub_assign(v, r)        == [v EXCEPT !.raw = SaturatingSub(v.raw, r.raw, v.w)]
sub_assign_scalar(v, n) == [v EXCEPT !.raw = SaturatingSub(v.raw, n, v.w)]

\* !self
not(v) == new(v.w, BitNot(v.raw, v.w))

\* Faulty variants: widening by a shift (* 256) or by the bare cast,
\* narrowing by a shift (/ 256).
u16_shift(v) == new(16, (v.raw * 256) % 2^16)
u16_cast(v)  == new(16, v.raw)
u8_shift(v)  == new(8, (v.raw \div 256) % 2^8)

\* FractionalU8::u16: `self.0 as u16 * 257`.  A u16 product beyond 65535
\* panics in a build with overflow checks and wraps in one without.
u16_overflows(v) == v.raw * 257 > MAX(16)
u16(v)           == new(16, (v.raw * 257) % 2^16)

\* FractionalU16::u8: `(self.0 / 257) as u8`; the cast keeps the low 8 bits
\* and drops the rest without a panic.
u8_truncates(v) == v.raw \div 257 > MAX(8)
u8(v)           == new(8, (v.raw \div 257) % 2^8)

\* Faulty variant: the product taken through f32 instead of f64.
mul_f32(v, r) == new_f32(16, FMul(f32(v), f32(r), F32))

\* FractionalU8 * FractionalU8 -> FractionalU16
mul(v, r) == new_f64(16, FMul(f64(v), f64(r), F64))

(***************************************************************************)
(* The state machine: a client holding one fractional value `self` and     *)
(* applying the crate's operations to it.  op, lhs, rhs and fin record the *)
(* last operation, its receiver, its integer operand and its float         *)
(* operand; prev and origin record the operation before it and that        *)
(* operation's receiver; overflowed records whether any integer operation  *)
(* left the range of its type (a panic with overflow checks, a wrap        *)
(* without; a truncating `as` cast that dropped set bits).                 *)
(***************************************************************************)
VARIABLES self, op, lhs, rhs, fin, prev, origin, overflowed, steps

vars == <<self, op, lhs, rhs, fin, prev, origin, overflowed, steps>>

\* Bounds of the model: the operands are the raws within Radius of 0 and
\* of MAX, and the two raws in the middle (their sums fall on both sides of
\* MAX); a run applies at most MaxSteps operations.
Radius == 1
MaxSteps == 2

Operands(w) ==
    (0 .. Radius)
      \cup {MAX(w) \div 2, MAX(w) \div 2 + 1}
      \cup ((MAX(w) - Radius) .. MAX(w))

NoFloat == FZero(FALSE, F64)

\* The receiver was built by new(value).
InitWith(values) ==
    /\ self \in values
    /\ op = "new"
    /\ lhs = self
    /\ rhs = 0
    /\ fin = NoFloat
    /\ prev = "new"
    /\ origin = self
    /\ overflowed = FALSE
    /\ steps = 0

Init == InitWith(UNION {{new(w, n) : n \in Operands(w)} : w \in Widths})

\* One integer operation on self with operand b.
Apply(name, result, b, ovf) ==
    /\ self' = result
    /\ op' = name
    /\ lhs' = self
    /\ rhs' = b
    /\ fin' = NoFloat
    /\ prev' = op
    /\ origin' = lhs
    /\ overflowed' = (overflowed \/ ovf)

Add             == \E b \in Operands(self.w) :
                     Apply("add", add(self, new(self.w, b)), b, FALSE)
AddScalar       == \E b \in Operands(self.w) :
                     Apply("add_scalar", add_scalar(self, b), b, FALSE)
AddAssign       == \E b \in Operands(self.w) :
                     Apply("add_assign", add_assign(self, new(self.w, b)), b, FALSE)
AddAssignScalar == \E b \in Operands(self.w) :
                     Apply("add_assign_scalar", add_assign_scalar(self, b), b, FALSE)
Sub             == \E b \in Operands(self.w) :
                     Apply("sub", sub(self, new(self.w, b)), b, FALSE)
SubScalar       == \E b \in Operands(self.w) :
                     Apply("sub_scalar", sub_scalar(self, b), b, FALSE)
SubAssign       == \E b \in Operands(self.w) :
                     Apply("sub_assign", sub_assign(self, new(self.w, b)), b, FALSE)
SubAssignScalar == \E b \in Operands(self.w) :
                     Apply("sub_assign_scalar", sub_assign_scalar(self, b), b, FALSE)
Max             == \E b \in Operands(self.w) :
                     Apply("max", max(self, new(self.w, b)), b, FALSE)
Min             == \E b \in Operands(self.w) :
                     Apply("min", min(self, new(self.w, b)), b, FALSE)
Not             == Apply("not", not(self), 0, FALSE)
U16             == /\ self.w = 8
                   /\ Apply("u16", u16(self), 0, u16_overflows(self))
U8              == /\ self.w = 16
                   /\ Apply("u8", u8(self), 0, u8_truncates(self))

\* A run counts its operations and stops at MaxSteps.
Tick == steps < MaxSteps /\ steps' = steps + 1

Next ==
    \/ Tick /\ Add
    \/ Tick /\ AddScalar
    \/ Tick /\ AddAssign
    \/ Tick /\ AddAssignScalar
    \/ Tick /\ Sub
    \/ Tick /\ SubScalar
    \/ Tick /\ SubAssign
    \/ Tick /\ SubAssignScalar
    \/ Tick /\ Max
    \/ Tick /\ Min
    \/ Tick /\ Not
    \/ Tick /\ U16
    \/ Tick /\ U8

Spec == Init /\ [][Next]_vars

\* The unary operations alone, from every value of both types.
InitConv == InitWith({new(8, n) : n \in 0 .. MAX(8)}
                       \cup {new(16, n) : n \in 0 .. MAX(16)})

NextConv ==
    \/ Not /\ UNCHANGED steps
    \/ U16 /\ UNCHANGED steps
    \/ U8 /\ UNCHANGED steps

SpecConv == InitConv /\ [][NextConv]_vars

\* The cross-width multiplication, for every pair of FractionalU8 values.
InitMul == InitWith({new(8, n) : n \in 0 .. MAX(8)})

Mul == \E b \in 0 .. MAX(8) :
         /\ self.w = 8
         /\ Apply("mul", mul(self, new(8, b)), b, FALSE)

NextMul == Mul /\ UNCHANGED steps

SpecMul == InitMul /\ [][NextMul]_vars

(***************************************************************************)
(* The float constructors.  The inputs are the decimal literals n / 10,    *)
(* the floats nearest to k / MAX, the floats around 0.0, 0.5 and 1.0, the  *)
(* least and the greatest finite float, the infinities and NaN.            *)
(***************************************************************************)
MaxTenths == 12

FOne(fmt)    == FOfInt(1, fmt)
FHalf(fmt)   == FOfRatio(FALSE, 1, 2, fmt)
FMinSub(fmt) == [k |-> "fin", neg |-> FALSE, m |-> <<1>>, e |-> fmt.emin]
FMaxFin(fmt) == [k |-> "fin", neg |-> FALSE,
                 m |-> BigPred(BigShl(<<1>>, fmt.p)), e |-> fmt.emax]

\* The literal 0.24805 of test::u8_mul_to_u16.
Lit024805(fmt) == FOfRatio(FALSE, 24805, 100000, fmt)

Positive(fmt) ==
    {FOfRatio(FALSE, n, 10, fmt) : n \in 1 .. MaxTenths}
      \cup {FOfRatio(FALSE, k, MAX(w), fmt) : k \in 1 .. MaxTenths, w \in Widths}
      \cup {FOne(fmt), FNextUp(FOne(fmt), fmt), FNextDown(FOne(fmt), fmt),
            FHalf(fmt), FNextUp(FHalf(fmt), fmt), FNextDown(FHalf(fmt), fmt),
            FMinSub(fmt), FMaxFin(fmt), Lit024805(fmt)}

FloatsOf(fmt) ==
    Positive(fmt) \cup {FNeg(x) : x \in Positive(fmt)}
      \cup {FZero(FALSE, fmt), FZero(TRUE, fmt), FInf(FALSE), FInf(TRUE), FNaN}

Floats32 == FloatsOf(F32)
Floats64 == FloatsOf(F64)

InitFloat == InitWith({Default(w) : w \in Widths})

\* A constructor has no receiver: the value it returns starts a history of
\* its own.
Construct(name, result, f) ==
    /\ self' = result
    /\ op' = name
    /\ lhs' = result
    /\ rhs' = 0
    /\ fin' = f
    /\ prev' = name
    /\ origin' = result
    /\ overflowed' = FALSE

NewF32 == \E w \in Widths, f \in Floats32 : Construct("new_f32", new_f32(w, f), f)
NewF64 == \E w \in Widths, f \in Floats64 : Construct("new_f64", new_f64(w, f), f)

NextFloat ==
    \/ NewF32 /\ UNCHANGED steps
    \/ NewF64 /\ UNCHANGED steps

SpecFloat == InitFloat /\ [][NextFloat]_vars

(***************************************************************************)
(* The claims.                                                             *)
(***************************************************************************)
AddOps == {"add", "add_scalar", "add_assign", "add_assign_scalar"}
SubOps == {"sub", "sub_scalar", "sub_assign", "sub_assign_scalar"}

\* C1: every form of addition (value + value, value + raw scalar, += value,
\* += raw scalar), at both widths, leaves raw = min(a + b, MAX(W)) in a value
\* of the receiver's width; it never wraps, and new(MAX) + new(1) is MAX.
C1_AddSaturates ==
    op \in AddOps =>
      /\ self.w = lhs.w
      /\ self.raw = IntMin(lhs.raw + rhs, MAX(lhs.w))
      /\ (lhs.raw = MAX(lhs.w) /\ rhs = 1 => self = new(lhs.w, MAX(lhs.w)))

C1_Witness ==
    /\ op = "add_assign_scalar" /\ lhs = new(16, MAX(16)) /\ rhs = 1
    /\ self = new(16, MAX(16))

\* C2: every form of subtraction (value - value, value - raw scalar,
\* -= value, -= raw scalar), at both widths, leaves raw = max(a - b, 0) in a
\* value of the receiver's width; it never wraps below zero, and
\* new(0) - new(1) is the default value.
C2_SubSaturates ==
    op \in SubOps =>
      /\ self.w = lhs.w
      /\ self.raw = IntMax(lhs.raw - rhs, 0)
      /\ (lhs.raw = 0 /\ rhs = 1 => self = Default(lhs.w))

C2_Witness ==
    /\ op = "sub" /\ lhs = new(8, 0) /\ rhs = 1
    /\ self = Default(8)

\* C3: narrowing what widening returned gives back the 8-bit value:
\* new(x).u16().u8() has raw x, for every x in 0..255.
C3_WidenNarrowRoundTrip ==
    op = "u8" /\ prev = "u16" => self = origin /\ origin.w = 8

C3_Witness ==
    /\ op = "u8" /\ prev = "u16" /\ origin = new(8, 200)
    /\ lhs = new(16, 51400) /\ self = new(8, 200)

\* C4: u16() is exact: for every 8-bit x the result is the 16-bit value of
\* raw x * 257, the product stays within 65535 (no overflow, no wrap), 0
\* goes to 0 and 255 to 65535, the fraction is the same (x * 65535 =
\* raw16 * 255), and no other 8-bit value widens to the same result.
C4_WidenExact ==
    op = "u16" =>
      /\ lhs.w = 8 /\ self.w = 16
      /\ self.raw = lhs.raw * 257
      /\ lhs.raw * 257 <= MAX(16)
      /\ ~u16_overflows(lhs)
      /\ lhs.raw * MAX(16) = self.raw * MAX(8)
      /\ (lhs.raw = 0 => self.raw = 0)
      /\ (lhs.raw = MAX(8) => self.raw = MAX(16))
      /\ \A y \in 0 .. MAX(8) : y # lhs.raw => u16(new(8, y)) # self

C4_Witness ==
    op = "u16" /\ lhs = new(8, MAX(8)) /\ self = new(16, MAX(16))

\* C5: inversion, at both widths: !x has raw MAX(W) - x (it stands for
\* 1.0 - self), inverting twice gives the value back, and for 8 bits 255
\* goes to 0, 0 to 255 and 200 to 55.
C5_NotIsComplement ==
    op = "not" =>
      /\ self.w = lhs.w
      /\ self.raw = MAX(lhs.w) - lhs.raw
      /\ (prev = "not" => self = origin)
      /\ (lhs = new(8, 255) => self.raw = 0)
      /\ (lhs = new(8, 0) => self.raw = 255)
      /\ (lhs = new(8, 200) => self.raw = 55)

C5_Witness ==
    /\ op = "not" /\ prev = "not" /\ origin = new(8, 200)
    /\ lhs = new(8, 55) /\ self = new(8, 200)

\* C6: new_f32 and new_f64, at both widths, clamp: an input below 0.0 gives
\* the default value (raw 0), an input above 1.0 gives MAX, and no input at
\* all gives a raw outside 0..MAX(W).
C6_FloatClamps ==
    op \in {"new_f32", "new_f64"} =>
      /\ self.raw \in 0 .. MAX(self.w)
      /\ (FLtZero(fin) => self = Default(self.w))
      /\ (FGtOne(fin) => self = new(self.w, MAX(self.w)))

C6_Witness ==
    /\ op = "new_f32" /\ fin = FOfRatio(FALSE, 11, 10, F32)
    /\ self = new(8, MAX(8))

\* Whether two finite floats are the same number.
FSame(x, y, fmt) == FCanon(x, fmt) = FCanon(y, fmt)

\* x compared with the integer n >= 0: -1, 0, 1 as x < n, x = n, x > n, for
\* a finite x >= 0.  x lies in [2^(len-1), 2^len); only when n does too are
\* the two brought to one exponent.
FCmpInt(x, n) ==
    LET len == BigBitLen(x.m) + x.e
    IN  IF x.m = << >> THEN (IF n = 0 THEN 0 ELSE -1)
        ELSE IF n = 0 THEN 1
        ELSE IF len > IntBitLen(n) THEN 1
        ELSE IF len < IntBitLen(n) THEN -1
        ELSE IF x.e <= 0 THEN BigCmp(x.m, BigShl(BigOfInt(n), -x.e))
        ELSE BigCmp(BigShl(x.m, x.e), BigOfInt(n))

ExactProduct(a, b) == (a * b * 257) \div 255

HalfU8 == new_f32(8, FHalf(F32))

\* C8 as stated: a * b is the product of the two fractions as a 16-bit
\* value, raw16 = floor((a / 255) * (b / 255) * 65535), for all 8-bit a and b.
C8_ProductIsExactFloor ==
    op = "mul" => self.raw = ExactProduct(lhs.raw, rhs)

\* C8, amended: a * b is FractionalU16::new_f64(a.f64() * b.f64()), whose raw
\* is floor((a / 255) * (b / 255) * 65535) or one less than that, and one
\* less only where a * b is a multiple of 255 (the exact product is then an
\* integer and the f64 product falls just below it).  A zero operand gives
\* raw 0, MAX * MAX gives 65535, and new_f32(0.5) * new_f32(0.5), which is
\* raw 127 * raw 127, gives FractionalU16::new_f32(0.24805), raw 16255, not
\* 16383.
C8_ProductWithinOne ==
    op = "mul" =>
      LET exact == ExactProduct(lhs.raw, rhs)
      IN  /\ lhs.w = 8 /\ self.w = 16
          /\ self.raw \in {exact, exact - 1}
          /\ (self.raw # exact => (lhs.raw * rhs) % 255 = 0)
          /\ (lhs.raw = 0 \/ rhs = 0 => self.raw = 0)
          /\ (lhs.raw = MAX(8) /\ rhs = MAX(8) => self.raw = MAX(16))
          /\ (lhs = HalfU8 /\ rhs = HalfU8.raw =>
                /\ lhs.raw = 127
                /\ self = new_f32(16, Lit024805(F32))
                /\ self.raw = 16255)

C8_Witness ==
    op = "mul" /\ lhs = new(8, 33) /\ rhs = 255 /\ self = new(16, 8480)

\* C9: whatever operations (the eight forms of addition and subtraction,
\* inversion, min, max, widening, narrowing) are applied in sequence, with
\* whatever operands, from whatever value, the raw is within 0..MAX(W) of
\* the width of its type after every step, and no step overflowed: none
\* panicked, none wrapped.
C9_RangeAndTotality ==
    /\ self.w \in Widths
    /\ self.raw \in 0 .. MAX(self.w)
    /\ ~overflowed

C9_Witness ==
    /\ steps = MaxSteps /\ prev = "u16" /\ op = "add"
    /\ lhs = new(16, MAX(16)) /\ rhs = 1 /\ self = new(16, MAX(16))

\* C10: u8() truncates: for every 16-bit y the result is the 8-bit value of
\* raw floor(y / 257), which fits 8 bits, 0 goes to 0 and 65535 to 255;
\* widening it again gives a raw <= y, equal to y exactly when y is a
\* multiple of 257, so that distinct 16-bit values narrow to the same 8-bit
\* value (y and its predecessor do, unless y is a multiple of 257).
C10_NarrowTruncates ==
    /\ op = "u8" =>
         /\ lhs.w = 16 /\ self.w = 8
         /\ self.raw * 257 <= lhs.raw
         /\ lhs.raw < (self.raw + 1) * 257
         /\ lhs.raw \div 257 <= MAX(8)
         /\ ~u8_truncates(lhs)
         /\ (lhs.raw = 0 => self.raw = 0)
         /\ (lhs.raw = MAX(16) => self.raw = MAX(8))
         /\ (lhs.raw % 257 # 0 => u8(new(16, lhs.raw - 1)) = self)
    /\ op = "u16" /\ prev = "u8" =>
         /\ self.raw <= origin.raw
         /\ (self.raw = origin.raw <=> origin.raw % 257 = 0)

C10_Witness ==
    /\ op = "u16" /\ prev = "u8" /\ origin = new(16, 65534)
    /\ lhs = new(8, 254) /\ self = new(16, 65278)

====
